---- MODULE Spec2Model ----
(***************************************************************************)
(* Person Sensor screen lock (code.py): a polling loop reads one result    *)
(* buffer per iteration from the sensor over I2C, unpacks it with struct,  *)
(* classifies the faces, updates two counters and sends a key chord when a *)
(* counter equals its threshold.                                           *)
(*                                                                         *)
(* Byte buffers are sequences of 0..255; the byte at Python offset k is    *)
(* element k+1 of the sequence.  struct formats are sequences of format    *)
(* characters, unpacked with native alignment (no prefix character).       *)
(***************************************************************************)
EXTENDS Integers, Sequences, FiniteSets, TLC

(***************************************************************************)
(* Bounds of the model (not program constants).                            *)
(***************************************************************************)
\* Polls that would push a counter above MaxCount are not explored.
MaxCount == 27
\* The emission tallies kept for the claims saturate at MaxEmissions.
MaxEmissions == 2

(***************************************************************************)
(* struct: calcsize and unpack_from with native alignment.                 *)
(***************************************************************************)
\* Size in bytes of one format character: B, b are bytes, H is a short.
ItemSize(c) == IF c = "H" THEN 2 ELSE 1

\* Native alignment: an item of size s starts at the next multiple of s.
Align(pos, s) == ((pos + s - 1) \div s) * s

RECURSIVE CalcSizeFrom(_, _)
CalcSizeFrom(fmt, pos) ==
  IF fmt = <<>> THEN pos
  ELSE CalcSizeFrom(Tail(fmt), Align(pos, ItemSize(Head(fmt))) + ItemSize(Head(fmt)))

\* struct.calcsize(fmt)
CalcSize(fmt) == CalcSizeFrom(fmt, 0)

ItemValueAllUnsigned(c, buf, o) ==
  IF c = "H" THEN buf[o + 1] + 256 * buf[o + 2] ELSE buf[o + 1]
\* The value of one item read at Python offset o of buf.
ItemValue(c, buf, o) ==
  CASE c = "B" -> buf[o + 1]
    [] c = "b" -> IF buf[o + 1] >= 128 THEN buf[o + 1] - 256 ELSE buf[o + 1]
    [] c = "H" -> buf[o + 1] + 256 * buf[o + 2]

RECURSIVE UnpackItems(_, _, _, _)
UnpackItems(fmt, buf, base, pos) ==
  IF fmt = <<>> THEN <<>>
  ELSE LET c == Head(fmt)
           p == Align(pos, ItemSize(c))
       IN  <<ItemValue(c, buf, base + p)>>
             \o UnpackItems(Tail(fmt), buf, base, p + ItemSize(c))

\* struct.unpack_from(fmt, buf, offset): raises when the buffer is too small
\* for the whole format at that offset, otherwise yields the tuple of values.
UnpackFrom(fmt, buf, offset) ==
  IF offset + CalcSize(fmt) > Len(buf)
  THEN [ok |-> FALSE, vals |-> <<>>]
  ELSE [ok |-> TRUE, vals |-> UnpackItems(fmt, buf, offset, 0)]

(***************************************************************************)
(* Constants of code.py.                                                   *)
(***************************************************************************)
PERSON_SENSOR_I2C_HEADER_FORMAT == <<"B", "B", "H">>
PERSON_SENSOR_I2C_HEADER_BYTE_COUNT == CalcSize(PERSON_SENSOR_I2C_HEADER_FORMAT)

PERSON_SENSOR_FACE_FORMAT == <<"B", "B", "B", "B", "B", "B", "b", "B">>
PERSON_SENSOR_FACE_BYTE_COUNT == CalcSize(PERSON_SENSOR_FACE_FORMAT)

PERSON_SENSOR_FACE_MAX == 4

RECURSIVE Repeat(_, _)
Repeat(fmt, n) == IF n = 0 THEN <<>> ELSE fmt \o Repeat(fmt, n - 1)

PERSON_SENSOR_RESULT_FORMAT ==
  PERSON_SENSOR_I2C_HEADER_FORMAT \o <<"B">>
    \o Repeat(PERSON_SENSOR_FACE_FORMAT, PERSON_SENSOR_FACE_MAX) \o <<"H">>

PERSON_SENSOR_RESULT_BYTE_COUNT == CalcSize(PERSON_SENSOR_RESULT_FORMAT)

\* PERSON_SENSOR_DELAY = 0.2 seconds, kept as a count of tenths of a second.
PERSON_SENSOR_DELAY_TENTHS == 2

MAIN_FACE_MIN_WIDTH == 32
MAIN_FACE_MIN_HEIGHT == 32

MAIN_FACE_TIMEOUT_SECONDS == 5
LOOKIE_LOO_TIMEOUT_SECONDS == 1

\* int(seconds / 0.2): the quotient truncated towards zero.  (The floating
\* point quotients 5/0.2 and 1/0.2 are exactly 25.0 and 5.0.)
TimeoutCount(seconds) == (seconds * 10) \div PERSON_SENSOR_DELAY_TENTHS

MainTimeoutCountRoundedUp == TimeoutCount(MAIN_FACE_TIMEOUT_SECONDS) + 1
MAIN_FACE_TIMEOUT_COUNT == TimeoutCount(MAIN_FACE_TIMEOUT_SECONDS)
LOOKIE_LOO_TIMEOUT_COUNT == TimeoutCount(LOOKIE_LOO_TIMEOUT_SECONDS)

\* The confidence a second face must exceed to count as a lookie-loo.
LOOKIE_LOO_MIN_CONFIDENCE == 90

\* The key chords handed to keyboard.send.
LOCK_CHORD == <<"GUI", "L">>
MINIMIZE_CHORD == <<"GUI", "M">>

(***************************************************************************)
(* The sensor side of the bus.  The sensor answers a read with its packed  *)
(* result structure (4 header bytes, the face count, 4 face slots of 8     *)
(* bytes, 2 checksum bytes); bytes clocked out after the structure are     *)
(* filler.  Unused face slots carry whatever the sensor left in them.      *)
(***************************************************************************)
\* Face slots as they appear on the wire: box_confidence, box_left, box_top,
\* box_right, box_bottom, id_confidence, id, is_facing.
Big95Facing    == <<95, 10, 10, 60, 60, 99, 1, 1>>
Big85Facing    == <<85, 10, 10, 60, 60, 99, 2, 1>>
Big90Facing    == <<90, 20, 20, 53, 53, 0, 255, 1>>
Big91Facing    == <<91, 20, 20, 53, 53, 0, 255, 2>>
Big95Away      == <<95, 10, 10, 60, 60, 99, 1, 0>>
Wide32Facing   == <<95, 10, 10, 42, 60, 99, 1, 1>>
Tall32Facing   == <<95, 10, 10, 60, 42, 99, 1, 1>>
MirroredFacing == <<95, 200, 10, 20, 60, 99, 1, 1>>

FaceSlots ==
  { Big95Facing, Big85Facing, Big90Facing, Big91Facing, Big95Away,
    Wide32Facing, Tall32Facing, MirroredFacing }

\* The face counts the sensor may report, valid ones and corrupt ones.
FaceCounts == {0, 1, 2, 3, 4, 5, 255}

\* Values of the bytes the program gives no meaning to.
JunkBytes == {0, 255}

\* The checksum bytes on the wire (little-endian 0xABCD).
WireChecksum == <<205, 171>>

\* The packed structure the sensor sends.
WireFrame(junk, n, slots) ==
  <<junk, junk, 34, 0>> \o <<n>>
    \o slots[1] \o slots[2] \o slots[3] \o slots[4] \o WireChecksum

SensorFrames ==
  { [wire |-> WireFrame(j, n, s), filler |-> j] :
      j \in JunkBytes, n \in FaceCounts, s \in [1..4 -> FaceSlots] }

\* The frames fed to the polling loop when whole runs of polls are explored.
LoopSlots == {Big95Facing, Big85Facing, Wide32Facing}
LoopFrames ==
  { [wire |-> WireFrame(0, n, <<a, b, Big95Facing, Big95Facing>>), filler |-> 255] :
      n \in {0, 1, 2, 5, 255}, a \in LoopSlots, b \in LoopSlots }

\* read_data = bytearray(count); i2c.readfrom_into(address, read_data):
\* the buffer is filled to its whole length from what the sensor clocks out.
ReadFromInto(count, frame) ==
  [k \in 1..count |-> IF k <= Len(frame.wire) THEN frame.wire[k] ELSE frame.filler]

(***************************************************************************)
(* Frame decoding (the unpacking part of the loop body).                   *)
(***************************************************************************)
\* The dictionary built from one unpacked face tuple.
FaceOf(v) ==
  [box_confidence |-> v[1], box_left |-> v[2], box_top |-> v[3],
   box_right |-> v[4], box_bottom |-> v[5], id_confidence |-> v[6],
   id |-> v[7], is_facing |-> v[8]]

\* for i in range(num_faces): the number of iterations asked for.
FaceLoopAllSlots(n) == PERSON_SENSOR_FACE_MAX
FaceLoopClamped(n) == IF n > PERSON_SENSOR_FACE_MAX THEN PERSON_SENSOR_FACE_MAX ELSE n
FaceLoopCount(n) == n

\* The face loop: unpack one record per iteration at the running offset; an
\* unpack that does not fit in the buffer raises and ends the loop.
RECURSIVE DecodeFaces(_, _, _, _)
DecodeFaces(buf, count, off, acc) ==
  IF Len(acc) >= count THEN [ok |-> TRUE, faces |-> acc, offset |-> off]
  ELSE LET u == UnpackFrom(PERSON_SENSOR_FACE_FORMAT, buf, off)
       IN  IF ~u.ok THEN [ok |-> FALSE, faces |-> acc, offset |-> off]
           ELSE DecodeFaces(buf, count, off + PERSON_SENSOR_FACE_BYTE_COUNT,
                            Append(acc, FaceOf(u.vals)))

\* Everything the loop body unpacks from read_data.  ok is FALSE when an
\* unpack raised; stage tells which one.  The checksum is unpacked at the
\* offset the face loop stopped at.
Decode(buf) ==
  LET Failed(stage, h, n, fl) ==
        [ok |-> FALSE, stage |-> stage, header |-> h, num_faces |-> n,
         faces |-> fl.faces, offset |-> fl.offset, checksum |-> 0]
      none == [faces |-> <<>>, offset |-> 0]
      h == UnpackFrom(PERSON_SENSOR_I2C_HEADER_FORMAT, buf, 0)
      off1 == PERSON_SENSOR_I2C_HEADER_BYTE_COUNT
      nf == UnpackFrom(<<"B">>, buf, off1)
  IN  IF ~h.ok \/ ~nf.ok THEN Failed("header", <<>>, 0, none)
      ELSE CHOOSE r \in
             { IF ~fl.ok THEN Failed("faces", h.vals, nf.vals[1], fl)
               ELSE LET ck == UnpackFrom(<<"H">>, buf, fl.offset)
                    IN  IF ~ck.ok THEN Failed("checksum", h.vals, nf.vals[1], fl)
                        ELSE [ok |-> TRUE, stage |-> "done", header |-> h.vals,
                              num_faces |-> nf.vals[1], faces |-> fl.faces,
                              offset |-> fl.offset, checksum |-> ck.vals[1]]
               : fl \in {DecodeFaces(buf, FaceLoopCount(nf.vals[1]), off1 + 1, <<>>)} }
             : TRUE

(***************************************************************************)
(* Face classification.                                                    *)
(***************************************************************************)
BigEnoughFaceInclusive(face) ==
  /\ face.box_right - face.box_left >= MAIN_FACE_MIN_WIDTH
  /\ face.box_bottom - face.box_top >= MAIN_FACE_MIN_HEIGHT
\* big_enough_face
BigEnoughFace(face) ==
  /\ face.box_right - face.box_left > MAIN_FACE_MIN_WIDTH
  /\ face.box_bottom - face.box_top > MAIN_FACE_MIN_HEIGHT

LookieLooTestInclusive(face) ==
  face.is_facing # 0 /\ face.box_confidence >= LOOKIE_LOO_MIN_CONFIDENCE
\* face["is_facing"] and face["box_confidence"] > 90
LookieLooTest(face) ==
  face.is_facing # 0 /\ face.box_confidence > LOOKIE_LOO_MIN_CONFIDENCE

\* The classification loop over faces, from face i on, with the flags so far.
RECURSIVE ClassifyFrom(_, _, _, _)
ClassifyFrom(fs, i, hm, hl) ==
  IF i > Len(fs) THEN [has_main_face |-> hm, has_lookie_loo |-> hl]
  ELSE IF BigEnoughFace(fs[i])
       THEN IF ~hm THEN ClassifyFrom(fs, i + 1, TRUE, hl)
            ELSE ClassifyFrom(fs, i + 1, hm, hl \/ LookieLooTest(fs[i]))
       ELSE ClassifyFrom(fs, i + 1, hm, hl)

Classify(fs) == ClassifyFrom(fs, 1, FALSE, FALSE)

(***************************************************************************)
(* Counters, triggers and dispatch.                                        *)
(***************************************************************************)
MainCounterInverted(hm, c) == IF hm THEN c + 1 ELSE 0
MainCounterStuck(hm, c) == IF hm THEN 0 ELSE 1
MainCounterWrapping(hm, c) ==
  IF hm \/ c >= MAIN_FACE_TIMEOUT_COUNT THEN 0 ELSE c + 1
\* if has_main_face: counter = 0 else: counter += 1
NextMainCounter(hm, c) == IF hm THEN 0 ELSE c + 1

LookieCounterSamePolarity(hl, c) == IF hl THEN 0 ELSE c + 1
\* if not has_lookie_loo: counter = 0 else: counter += 1
NextLookieCounter(hl, c) == IF ~hl THEN 0 ELSE c + 1

LockTriggeredAtOrAbove(c) == c >= MAIN_FACE_TIMEOUT_COUNT
\* time_since_main_face_disappeared == MAIN_FACE_TIMEOUT_COUNT
LockTriggered(c) == c = MAIN_FACE_TIMEOUT_COUNT

MinimizeTriggeredAtOrAbove(c) == c >= LOOKIE_LOO_TIMEOUT_COUNT
\* time_since_lookie_loo_appeared == LOOKIE_LOO_TIMEOUT_COUNT
MinimizeTriggered(c) == c = LOOKIE_LOO_TIMEOUT_COUNT

\* The chords handed to keyboard.send during one iteration, in order.
DispatchWithRetry(m, l) ==
  (IF LockTriggered(m) THEN <<LOCK_CHORD, LOCK_CHORD>> ELSE <<>>)
    \o (IF MinimizeTriggered(l) THEN <<MINIMIZE_CHORD, MINIMIZE_CHORD>> ELSE <<>>)
Dispatch(m, l) ==
  (IF LockTriggered(m) THEN <<LOCK_CHORD>> ELSE <<>>)
    \o (IF MinimizeTriggered(l) THEN <<MINIMIZE_CHORD>> ELSE <<>>)

\* The lines printed during one iteration, in order.
Printed(m, l) ==
  (IF LockTriggered(m) THEN <<"Locking!">> ELSE <<>>)
    \o (IF MinimizeTriggered(l) THEN <<"Minimizing!">> ELSE <<>>)

(***************************************************************************)
(* State.                                                                  *)
(***************************************************************************)
VARIABLES
  status,                            \* "startup", "sleeping" (an iteration
                                     \* ended in time.sleep), "crashed"
  time_since_main_face_disappeared,
  time_since_lookie_loo_appeared,
  read_data,                         \* the buffer of the latest iteration
  header,                            \* (pad1, pad2, payload_bytes)
  num_faces,
  faces,
  offset,
  checksum,
  has_main_face,
  has_lookie_loo,
  sent,                              \* chords sent in the latest iteration
  printed,                           \* lines printed in the latest iteration
  bus_error,                         \* the latest i2c.readfrom_into raised
  \* History kept for the properties (not program state):
  noMainRun,      \* length of the current run of polls without a main face
  locksInRun,     \* lock chords sent during that run
  lookieRun,      \* length of the current run of polls with a lookie-loo
  minimizesInRun, \* minimize chords sent during that run
  emptyPolls,     \* polls so far if every one had num_faces = 0, else -1
  sinceLock,      \* "never" locked; "absent": no main face seen since the
                  \* last lock; "seen": a main face seen since the last lock
  sinceMinimize,  \* "never"; "held": a lookie-loo on every poll since the
                  \* last minimize; "released": some poll had none
  locksSent,      \* lock chords sent so far, saturating at MaxEmissions
  minimizesSent   \* minimize chords sent so far, saturating

program == <<status, time_since_main_face_disappeared,
             time_since_lookie_loo_appeared, read_data, header, num_faces,
             faces, offset, checksum, has_main_face, has_lookie_loo, sent,
             printed, bus_error>>
history == <<noMainRun, locksInRun, lookieRun, minimizesInRun, emptyPolls,
             sinceLock, sinceMinimize, locksSent, minimizesSent>>
vars == <<program, history>>

\* The number of times chord occurs in the sequence s.
Count(s, chord) == Cardinality({i \in 1..Len(s) : s[i] = chord})

Saturate(n) == IF n > MaxEmissions THEN MaxEmissions ELSE n

\* The state when the loop is first entered: both counters are 0; the names
\* bound inside the loop are not bound yet (shown as empty values).
Init ==
  /\ status = "startup"
  /\ time_since_main_face_disappeared = 0
  /\ time_since_lookie_loo_appeared = 0
  /\ read_data = <<>>
  /\ header = <<>>
  /\ num_faces = 0
  /\ faces = <<>>
  /\ offset = 0
  /\ checksum = 0
  /\ has_main_face = FALSE
  /\ has_lookie_loo = FALSE
  /\ sent = <<>>
  /\ printed = <<>>
  /\ bus_error = FALSE
  /\ noMainRun = 0
  /\ locksInRun = 0
  /\ lookieRun = 0
  /\ minimizesInRun = 0
  /\ emptyPolls = 0
  /\ sinceLock = "never"
  /\ sinceMinimize = "never"
  /\ locksSent = 0
  /\ minimizesSent = 0

\* The history after an iteration that ran to its end.
Record(n, hm, hl, out) ==
  LET locks == Count(out, LOCK_CHORD)
      mins  == Count(out, MINIMIZE_CHORD)
  IN  /\ noMainRun' = IF hm THEN 0 ELSE noMainRun + 1
      /\ locksInRun' = IF hm THEN 0 ELSE locksInRun + locks
      /\ lookieRun' = IF hl THEN lookieRun + 1 ELSE 0
      /\ minimizesInRun' = IF hl THEN minimizesInRun + mins ELSE 0
      /\ emptyPolls' = IF emptyPolls >= 0 /\ n = 0 THEN emptyPolls + 1 ELSE -1
      /\ sinceLock' = IF locks > 0 THEN "absent"
                      ELSE IF hm /\ sinceLock = "absent" THEN "seen"
                      ELSE sinceLock
      /\ sinceMinimize' = IF mins > 0 THEN "held"
                          ELSE IF ~hl /\ sinceMinimize = "held" THEN "released"
                          ELSE sinceMinimize
      /\ locksSent' = Saturate(locksSent + locks)
      /\ minimizesSent' = Saturate(minimizesSent + mins)

\* An iteration whose unpacking raised: the program ends there; the names
\* bound before the failing statement keep what they were given.
Crash(buf, d) ==
  /\ status' = "crashed"
  /\ read_data' = buf
  /\ header' = IF d.stage = "header" THEN header ELSE d.header
  /\ num_faces' = IF d.stage = "header" THEN num_faces ELSE d.num_faces
  /\ faces' = IF d.stage = "header" THEN faces ELSE d.faces
  /\ offset' = d.offset
  /\ sent' = <<>>
  /\ printed' = <<>>
  /\ UNCHANGED <<time_since_main_face_disappeared,
                 time_since_lookie_loo_appeared, checksum,
                 has_main_face, has_lookie_loo, history>>

\* An iteration that runs to its end: classify, update the counters,
\* dispatch, sleep.
Complete(buf, d, c, m, l, out) ==
  /\ m <= MaxCount
  /\ l <= MaxCount
  /\ status' = "sleeping"
  /\ read_data' = buf
  /\ header' = d.header
  /\ num_faces' = d.num_faces
  /\ faces' = d.faces
  /\ offset' = d.offset
  /\ checksum' = d.checksum
  /\ has_main_face' = c.has_main_face
  /\ has_lookie_loo' = c.has_lookie_loo
  /\ time_since_main_face_disappeared' = m
  /\ time_since_lookie_loo_appeared' = l
  /\ sent' = out
  /\ printed' = Printed(m, l)
  /\ Record(d.num_faces, c.has_main_face, c.has_lookie_loo, out)

\* The loop body after the bus read, on the buffer the read left.
Process(buf) ==
  \E d \in {Decode(buf)} :
    IF ~d.ok THEN Crash(buf, d)
    ELSE \E c \in {Classify(d.faces)} :
         \E m \in {NextMainCounter(c.has_main_face,
                                   time_since_main_face_disappeared)} :
         \E l \in {NextLookieCounter(c.has_lookie_loo,
                                     time_since_lookie_loo_appeared)} :
           Complete(buf, d, c, m, l, Dispatch(m, l))

\* One iteration of the while loop on the frame the sensor delivers.
Poll(frame) ==
  /\ status # "crashed"
  /\ bus_error' = FALSE
  /\ \E buf \in {ReadFromInto(PERSON_SENSOR_RESULT_BYTE_COUNT, frame)} :
       Process(buf)

\* The buffer after a read that stopped after got bytes: the rest of the
\* fresh bytearray is still zero.
PartialRead(count, frame, got) ==
  [k \in 1..count |->
     IF k <= got /\ k <= Len(frame.wire) THEN frame.wire[k] ELSE 0]

\* Reads that fail: how many bytes arrived before the failure, of which frame.
ShortReads == {0, 13}
FailedFrames ==
  { [wire |-> WireFrame(0, n, <<Big95Facing, Big95Facing, Big95Facing, Big95Facing>>),
     filler |-> 255] : n \in {0, 2} }

BusReadErrorSwallowed(frame, got) ==
  /\ status # "crashed"
  /\ bus_error' = TRUE
  /\ \E buf \in {PartialRead(PERSON_SENSOR_RESULT_BYTE_COUNT, frame, got)} :
       Process(buf)
\* An iteration whose i2c.readfrom_into raises: nothing in the loop catches
\* the exception, so the program ends before anything is unpacked.
BusReadFails(frame, got) ==
  /\ status # "crashed"
  /\ bus_error' = TRUE
  /\ status' = "crashed"
  /\ read_data' = PartialRead(PERSON_SENSOR_RESULT_BYTE_COUNT, frame, got)
  /\ sent' = <<>>
  /\ printed' = <<>>
  /\ UNCHANGED <<time_since_main_face_disappeared,
                 time_since_lookie_loo_appeared, header, num_faces, faces,
                 offset, checksum, has_main_face, has_lookie_loo, history>>

\* The polling loop over whole runs of frames.
LoopPoll == \E frame \in LoopFrames : Poll(frame)
ReadFailure == \E frame \in FailedFrames, got \in ShortReads : BusReadFails(frame, got)
Next == LoopPoll \/ ReadFailure
Spec == Init /\ [][Next]_vars

\* The loop is `while True`: as long as the program has not ended, another
\* iteration is eventually run.  The frames here are one of each kind: nobody
\* there, a main face alone, a main face with a lookie-loo, a corrupt count.
LiveFrames ==
  { [wire |-> WireFrame(0, n, <<Big95Facing, Big95Facing, Big95Facing, Big95Facing>>),
     filler |-> 255] : n \in {0, 1, 2, 255} }
LivePoll == \E frame \in LiveFrames : Poll(frame)
NextLive == LivePoll \/ ReadFailure
SpecLive == Init /\ [][NextLive]_vars /\ WF_vars(LivePoll)

\* The first iteration on every frame of SensorFrames: decoding and
\* classification are functions of the frame alone.
FirstPoll == status = "startup" /\ \E frame \in SensorFrames : Poll(frame)
NextDecode == FirstPoll
SpecDecode == Init /\ [][NextDecode]_vars

(***************************************************************************)
(* Properties.                                                             *)
(***************************************************************************)
\* Chords of each kind sent in the latest iteration.
LocksNow == Count(sent, LOCK_CHORD)
MinimizesNow == Count(sent, MINIMIZE_CHORD)

\* The size test as the specification words it.
WiderAndTallerThan32(face) ==
  /\ face.box_right - face.box_left > 32
  /\ face.box_bottom - face.box_top > 32

\* C1: in every maximal run of polls without a main face the lock chord is
\* sent exactly once if the run has reached MAIN_FACE_TIMEOUT_COUNT polls and
\* not at all before; it is sent on the poll where the run length equals
\* MAIN_FACE_TIMEOUT_COUNT and on no other poll, and never on a poll whose
\* frame has a main face.
LockOncePerAbsenceRun ==
  /\ locksInRun = (IF noMainRun >= MAIN_FACE_TIMEOUT_COUNT THEN 1 ELSE 0)
  /\ status = "sleeping" =>
       /\ (LocksNow > 0) <=> (~has_main_face /\ noMainRun = MAIN_FACE_TIMEOUT_COUNT)
       /\ has_main_face => LocksNow = 0 /\ noMainRun = 0

\* A run without a main face that went on past the threshold.
AbsenceHeldPastThreshold ==
  /\ status = "sleeping"
  /\ noMainRun > MAIN_FACE_TIMEOUT_COUNT
  /\ locksInRun = 1

\* C2: in every maximal run of polls with a lookie-loo the minimize chord is
\* sent exactly once if the run has reached LOOKIE_LOO_TIMEOUT_COUNT polls,
\* on the poll where the run length equals it and on no other; a poll
\* without a lookie-loo puts the count back to 0, and no minimize chord is
\* sent on a poll whose frame has no lookie-loo.
MinimizeOncePerLookieRun ==
  /\ minimizesInRun = (IF lookieRun >= LOOKIE_LOO_TIMEOUT_COUNT THEN 1 ELSE 0)
  /\ status = "sleeping" =>
       /\ (MinimizesNow > 0) <=> (has_lookie_loo /\ lookieRun = LOOKIE_LOO_TIMEOUT_COUNT)
       /\ ~has_lookie_loo =>
            /\ MinimizesNow = 0
            /\ lookieRun = 0
            /\ time_since_lookie_loo_appeared = 0

\* A run with a lookie-loo that went on past the threshold.
LookieHeldPastThreshold ==
  /\ status = "sleeping"
  /\ lookieRun > LOOKIE_LOO_TIMEOUT_COUNT
  /\ minimizesInRun = 1

\* C3: the default thresholds are 25 and 5, and from startup 25 consecutive
\* frames with num_faces = 0 send nothing on polls 1 to 24 and the lock
\* chord alone on poll 25.
DefaultThresholdsAndFirstLock ==
  /\ MAIN_FACE_TIMEOUT_COUNT = 25
  /\ LOOKIE_LOO_TIMEOUT_COUNT = 5
  /\ (status = "sleeping" /\ emptyPolls \in 1..24) => sent = <<>>
  /\ (status = "sleeping" /\ emptyPolls = 25) => sent = <<LOCK_CHORD>>

\* The 25th poll of a run of empty frames from startup.
TwentyFifthEmptyPoll == status = "sleeping" /\ emptyPolls = 25

\* C4: past its threshold a counter goes on incrementing without the chord
\* being sent again; a lock chord is only sent again after a poll with a
\* main face, a minimize chord only after a poll without a lookie-loo, and
\* a new run that reaches the threshold after such a reset does send it.
NoRefireUntilReset ==
  /\ [](sinceLock = "seen" => noMainRun < MAIN_FACE_TIMEOUT_COUNT)
  /\ [](sinceMinimize = "released" => lookieRun < LOOKIE_LOO_TIMEOUT_COUNT)
  /\ [][/\ (status' = "sleeping" /\ LocksNow' > 0) => sinceLock # "absent"
        /\ (status' = "sleeping" /\ MinimizesNow' > 0) => sinceMinimize # "held"
        /\ (/\ status' = "sleeping"
            /\ ~has_main_face'
            /\ time_since_main_face_disappeared >= MAIN_FACE_TIMEOUT_COUNT)
             => /\ time_since_main_face_disappeared'
                     = time_since_main_face_disappeared + 1
                /\ LocksNow' = 0
        /\ (/\ status' = "sleeping"
            /\ has_lookie_loo'
            /\ time_since_lookie_loo_appeared >= LOOKIE_LOO_TIMEOUT_COUNT)
             => /\ time_since_lookie_loo_appeared'
                     = time_since_lookie_loo_appeared + 1
                /\ MinimizesNow' = 0
       ]_vars

\* Both chords have been sent a second time, each after a reset.
BothChordsSentAgain ==
  /\ locksSent >= 2
  /\ minimizesSent >= 2

\* C5: a face with width <= 32 or height <= 32 never makes has_main_face or
\* has_lookie_loo true: has_main_face holds iff some face is wider and
\* taller than 32, and has_lookie_loo needs two such faces.
SmallFacesNeverCount ==
  status = "sleeping" =>
    /\ has_main_face <=> \E i \in 1..Len(faces) : WiderAndTallerThan32(faces[i])
    /\ has_lookie_loo =>
         \E i, j \in 1..Len(faces) :
           i < j /\ WiderAndTallerThan32(faces[i]) /\ WiderAndTallerThan32(faces[j])

\* A facing, confident face exactly 32 wide after a main face: no lookie-loo.
Width32FaceAfterMainFace ==
  /\ status = "sleeping"
  /\ Len(faces) = 2
  /\ WiderAndTallerThan32(faces[1])
  /\ faces[2].box_right - faces[2].box_left = 32
  /\ faces[2].is_facing = 1
  /\ faces[2].box_confidence = 95
  /\ has_main_face
  /\ ~has_lookie_loo

\* C6: has_lookie_loo holds iff some big-enough face after the first
\* big-enough face is facing with box_confidence > 90; so never with fewer
\* than two big-enough faces, and with two big-enough faces whose second is
\* facing it holds for confidence 95 and not for 85.
LookieLooIffLaterFaceQualifies ==
  status = "sleeping" =>
    LET big == {i \in 1..Len(faces) : WiderAndTallerThan32(faces[i])}
    IN  /\ has_lookie_loo <=>
             \E j \in big :
               /\ \E i \in big : i < j
               /\ faces[j].is_facing # 0
               /\ faces[j].box_confidence > 90
        /\ Cardinality(big) <= 1 => ~has_lookie_loo
        /\ (Len(faces) = 2 /\ big = {1, 2} /\ faces[2].is_facing = 1)
             => /\ faces[2].box_confidence = 95 => has_lookie_loo
                /\ faces[2].box_confidence = 85 => ~has_lookie_loo

\* Two big faces, the first facing with confidence 95, the second facing
\* with confidence 85: no lookie-loo.
SecondFaceAt85 ==
  /\ status = "sleeping"
  /\ Len(faces) = 2
  /\ WiderAndTallerThan32(faces[1]) /\ WiderAndTallerThan32(faces[2])
  /\ faces[1].is_facing = 1 /\ faces[1].box_confidence = 95
  /\ faces[2].is_facing = 1 /\ faces[2].box_confidence = 85
  /\ ~has_lookie_loo

\* C7: a frame whose num_faces byte is above 4 ends the iteration with an
\* error: at most 4 face records were unpacked, all inside the buffer, the
\* counters keep their values and nothing is sent.
OversizedFaceCountFails ==
  /\ [](num_faces > PERSON_SENSOR_FACE_MAX => status = "crashed")
  /\ [][(status # "crashed" /\ num_faces' > PERSON_SENSOR_FACE_MAX) =>
          /\ status' = "crashed"
          /\ Len(faces') <= PERSON_SENSOR_FACE_MAX
          /\ offset' = PERSON_SENSOR_I2C_HEADER_BYTE_COUNT + 1
                         + Len(faces') * PERSON_SENSOR_FACE_BYTE_COUNT
          /\ offset' <= Len(read_data')
          /\ time_since_main_face_disappeared' = time_since_main_face_disappeared
          /\ time_since_lookie_loo_appeared' = time_since_lookie_loo_appeared
          /\ sent' = <<>>
          /\ printed' = <<>>
       ]_vars

\* A frame with num_faces = 0xFF arrived while the main-face counter ran.
CrashedOnFaceCount255 ==
  /\ status = "crashed"
  /\ num_faces = 255
  /\ Len(faces) = 4
  /\ time_since_main_face_disappeared > 0

\* C8: the buffer of each bus read is exactly 39 bytes long.
ReadBufferIs39Bytes == status # "startup" => Len(read_data) = 39

\* C9: whatever num_faces is, the checksum read is the 2-byte field at byte
\* offset 37 of the buffer.
ChecksumReadAtOffset37 ==
  status = "sleeping" =>
    /\ offset = 37
    /\ checksum = read_data[38] + 256 * read_data[39]

\* C10: an iteration sends the lock chord once iff the main-face counter
\* equals its threshold after the update, the minimize chord once iff the
\* lookie-loo counter equals its threshold after the update, and nothing
\* else.
OneChordPerTrigger ==
  /\ LocksNow = (IF status = "sleeping"
                    /\ time_since_main_face_disappeared = MAIN_FACE_TIMEOUT_COUNT
                 THEN 1 ELSE 0)
  /\ MinimizesNow = (IF status = "sleeping"
                        /\ time_since_lookie_loo_appeared = LOOKIE_LOO_TIMEOUT_COUNT
                     THEN 1 ELSE 0)
  /\ Len(sent) = LocksNow + MinimizesNow

\* An iteration that sent the minimize chord, and only it.
MinimizeChordSent ==
  /\ status = "sleeping"
  /\ time_since_lookie_loo_appeared = LOOKIE_LOO_TIMEOUT_COUNT
  /\ sent = <<MINIMIZE_CHORD>>

\* C11: a bus read that fails, or delivers fewer bytes than the buffer
\* holds, ends the program on that poll: no counter changes, nothing is
\* unpacked from the partly filled buffer, nothing is sent, and no further
\* poll follows.
BusReadFailureIsFatal ==
  /\ [](bus_error => status = "crashed")
  /\ [][~bus_error]_vars
  /\ [][bus_error' =>
          /\ time_since_main_face_disappeared' = time_since_main_face_disappeared
          /\ time_since_lookie_loo_appeared' = time_since_lookie_loo_appeared
          /\ UNCHANGED <<header, num_faces, faces, offset, checksum,
                         has_main_face, has_lookie_loo>>
          /\ sent' = <<>>
          /\ printed' = <<>>
       ]_vars

\* A read that stopped after 13 bytes while the main-face counter ran.
ShortReadWhileCounting ==
  /\ bus_error
  /\ status = "crashed"
  /\ time_since_main_face_disappeared > 0
  /\ read_data[6] # 0
  /\ read_data[14] = 0

\* C12 as claimed: each counter is put back to 0 on every poll on which its
\* condition holds (main face seen, lookie-loo seen) and incremented by 1
\* on every other poll.
BothCountersResetWhenSeen ==
  [][status' = "sleeping" =>
       /\ time_since_main_face_disappeared'
            = (IF has_main_face' THEN 0 ELSE time_since_main_face_disappeared + 1)
       /\ time_since_lookie_loo_appeared'
            = (IF has_lookie_loo' THEN 0 ELSE time_since_lookie_loo_appeared + 1)
    ]_vars

\* C12 as amended: the main-face counter is put back to 0 on every poll
\* that sees a main face and incremented by 1 on every other poll; the
\* lookie-loo counter is incremented by 1 on every poll that sees a
\* lookie-loo and put back to 0 on every other poll.
CountersOppositePolarity ==
  [][status' = "sleeping" =>
       /\ has_main_face' => time_since_main_face_disappeared' = 0
       /\ ~has_main_face' =>
            time_since_main_face_disappeared' = time_since_main_face_disappeared + 1
       /\ has_lookie_loo' =>
            time_since_lookie_loo_appeared' = time_since_lookie_loo_appeared + 1
       /\ ~has_lookie_loo' => time_since_lookie_loo_appeared' = 0
    ]_vars

\* A second consecutive poll with a lookie-loo: its counter stands at 2.
LookieSeenTwice ==
  /\ status = "sleeping"
  /\ has_lookie_loo
  /\ time_since_lookie_loo_appeared = 2
  /\ time_since_main_face_disappeared = 0

\* C13: a poll that runs to its end sets the main-face counter to 0 if the
\* frame has a main face and to its previous value + 1 otherwise, and the
\* lookie-loo counter to its previous value + 1 if the frame has a
\* lookie-loo and to 0 otherwise; nothing else changes them.  Both start at
\* 0 and are never negative, and the main-face counter is the number of
\* polls since the last poll with a main face (or since startup).
CounterRulesExact ==
  /\ [](/\ status = "startup" =>
             /\ time_since_main_face_disappeared = 0
             /\ time_since_lookie_loo_appeared = 0
        /\ time_since_main_face_disappeared >= 0
        /\ time_since_lookie_loo_appeared >= 0
        /\ time_since_main_face_disappeared = noMainRun
        /\ time_since_lookie_loo_appeared = lookieRun)
  /\ [][IF status' = "sleeping"
        THEN /\ time_since_main_face_disappeared' =
                  (IF has_main_face' THEN 0
                   ELSE time_since_main_face_disappeared + 1)
             /\ time_since_lookie_loo_appeared' =
                  (IF has_lookie_loo' THEN time_since_lookie_loo_appeared + 1
                   ELSE 0)
        ELSE UNCHANGED <<time_since_main_face_disappeared,
                         time_since_lookie_loo_appeared>>
       ]_vars

\* The third poll without a main face after a main face came back once.
ThirdPollSinceMainFace ==
  /\ status = "sleeping"
  /\ sinceLock = "seen"
  /\ ~has_main_face
  /\ time_since_main_face_disappeared = 3

\* C14: for 0 <= num_faces <= 4 the decoder yields exactly num_faces face
\* records in buffer order, record i from the 8 bytes at offsets 5+8i to
\* 12+8i in the order box_confidence, box_left, box_top, box_right,
\* box_bottom, id_confidence, id, is_facing, each an unsigned byte except
\* id, a signed byte.
FaceRecordsFromBuffer ==
  status = "sleeping" =>
    /\ num_faces = read_data[5]
    /\ num_faces \in 0..4
    /\ Len(faces) = num_faces
    /\ \A i \in 0..(num_faces - 1) :
         LET byte(k) == read_data[5 + 8 * i + k + 1]
         IN  /\ faces[i + 1] =
                  [box_confidence |-> byte(0), box_left |-> byte(1),
                   box_top |-> byte(2), box_right |-> byte(3),
                   box_bottom |-> byte(4), id_confidence |-> byte(5),
                   id |-> IF byte(6) >= 128 THEN byte(6) - 256 ELSE byte(6),
                   is_facing |-> byte(7)]
             /\ faces[i + 1].id \in -128..127
             /\ \A f \in {"box_confidence", "box_left", "box_top", "box_right",
                          "box_bottom", "id_confidence", "is_facing"} :
                  faces[i + 1][f] \in 0..255

\* Four faces, the first with box_left 200, the last with id byte 0xFF.
FourFacesWithNegativeId ==
  /\ status = "sleeping"
  /\ num_faces = 4
  /\ faces[1].box_left = 200
  /\ read_data[36] = 255
  /\ faces[4].id = -1

\* buf with every byte outside num_faces and the first num_faces face
\* records replaced: header, checksum and filler bytes by junk, the bytes of
\* unused face slots by those of slot.
Scrubbed(buf, junk, slot) ==
  [k \in 1..Len(buf) |->
     IF k - 1 >= 4 /\ k - 1 <= 4 + 8 * buf[5] THEN buf[k]
     ELSE IF k - 1 >= 5 /\ k - 1 <= 36 THEN slot[((k - 6) % 8) + 1]
     ELSE junk]

\* The replacement bytes tried: a junk byte and the content of unused slots.
ScrubFills == {<<0, Big95Facing>>, <<255, Wide32Facing>>}

\* C15: the outcome of a poll depends only on num_faces and the first
\* num_faces face records: the same poll on a frame that differs in any of
\* the other bytes (unused slots, pad1, pad2, payload_bytes, checksum) fails
\* or completes alike and gives the same flags, counters and chords.
OutcomeIgnoresUnusedBytes ==
  [][(status # "crashed" /\ ~bus_error') =>
       \A fill \in ScrubFills :
         \A other \in {Scrubbed(read_data', fill[1], fill[2])} :
         \A d \in {Decode(other)} :
           IF ~d.ok THEN status' = "crashed"
           ELSE \A c \in {Classify(d.faces)} :
                  /\ status' = "sleeping"
                  /\ num_faces' = d.num_faces
                  /\ faces' = d.faces
                  /\ has_main_face' = c.has_main_face
                  /\ has_lookie_loo' = c.has_lookie_loo
                  /\ time_since_main_face_disappeared' =
                       NextMainCounter(c.has_main_face,
                                       time_since_main_face_disappeared)
                  /\ time_since_lookie_loo_appeared' =
                       NextLookieCounter(c.has_lookie_loo,
                                         time_since_lookie_loo_appeared)
                  /\ sent' = Dispatch(time_since_main_face_disappeared',
                                      time_since_lookie_loo_appeared')
    ]_vars

\* The lock chord sent on a frame with num_faces = 0 whose first, unused
\* slot holds a big facing face.
LockedDespiteFaceInUnusedSlot ==
  /\ status = "sleeping"
  /\ num_faces = 0
  /\ SubSeq(read_data, 6, 13) = Big95Facing
  /\ sent = <<LOCK_CHORD>>

\* C16: after every poll, a lookie-loo counter above 0 means the main-face
\* counter is 0; the lock and minimize chords are never sent on the same
\* poll, and the minimize chord is only sent on a poll whose frame has a
\* main face.
LookieLooImpliesMainFace ==
  /\ MAIN_FACE_TIMEOUT_COUNT >= 1
  /\ LOOKIE_LOO_TIMEOUT_COUNT >= 1
  /\ time_since_lookie_loo_appeared > 0 => time_since_main_face_disappeared = 0
  /\ ~(LocksNow > 0 /\ MinimizesNow > 0)
  /\ status = "sleeping" =>
       /\ has_lookie_loo => has_main_face
       /\ MinimizesNow > 0 => has_main_face

\* The minimize chord sent, with a main face present, after an earlier lock.
MinimizedWithMainFacePresent ==
  /\ status = "sleeping"
  /\ MinimizesNow = 1
  /\ LocksNow = 0
  /\ has_main_face
  /\ locksSent >= 1

\* C17: while the loop keeps polling and no read or unpack fails, a run of
\* polls without a main face goes on until a main face returns or the lock
\* chord has been sent, which it has, once, as soon as the run is
\* MAIN_FACE_TIMEOUT_COUNT polls long; likewise a run of polls with a
\* lookie-loo and the minimize chord.
ChordEventuallySent ==
  /\ (status = "sleeping" /\ ~has_main_face)
       ~> (status = "crashed" \/ has_main_face \/ locksInRun = 1)
  /\ (status = "sleeping" /\ has_lookie_loo)
       ~> (status = "crashed" \/ ~has_lookie_loo \/ minimizesInRun = 1)
  /\ [](noMainRun >= MAIN_FACE_TIMEOUT_COUNT => locksInRun = 1)
  /\ [](lookieRun >= LOOKIE_LOO_TIMEOUT_COUNT => minimizesInRun = 1)

\* The lock chord sent on the poll that completes the timeout, after an
\* earlier minimize.
LockAtThresholdAfterMinimize ==
  /\ status = "sleeping"
  /\ noMainRun = MAIN_FACE_TIMEOUT_COUNT
  /\ LocksNow = 1
  /\ minimizesSent >= 1

====
